---- MODULE Spec2Model ----
(***************************************************************************)
(* Model of the VAD live transcriber (whisper_live_vad.py, and the         *)
(* identical capture/stop code of whisper_live_faster.py): the speech      *)
(* segmenter run by the capture thread, the segment queue, the             *)
(* transcription worker thread and the thread that calls start()/stop().   *)
(*                                                                         *)
(* A frame is modelled by its arrival number (1, 2, ...) in the device     *)
(* stream; the classifier's decision for it is an input.  A Segment is the *)
(* temporary WAV file put on audio_queue: the frames written to it, plus   *)
(* history fields (who pushed it, for which onset, and its push number).   *)
(* Threads interleave between the statements that read or write state      *)
(* shared with another thread (is_recording, voiced_frames, audio_queue).  *)
(***************************************************************************)
EXTENDS Integers, Sequences, FiniteSets, TLC

\* Bounds of the model
MaxFrames == 20
MaxStops == 2
MaxTime == 2
MaxSaves == 2
MaxEntries == 2
ChunkFrames == 3
MaxChunks == 2

\* Program constants
frame_duration_ms == 30
padding_duration_ms == 300
MinFrames == 10
maxsize == 0

ring_buffer_size == padding_duration_ms \div frame_duration_ms

VARIABLES
    script,                 \* which input stream the frame source delivers
    cls,                    \* which transcriber class the session runs
    loads,                  \* model constructions attempted by load_model
    start_pc,               \* outcome of the start() call
    nframes,                \* frames read from the stream so far
    model,                  \* self.model
    is_recording,           \* self.is_recording
    triggered,              \* self.triggered
    ring_buffer,            \* self.ring_buffer: deque of (frame, is_speech)
    voiced_frames,          \* self.voiced_frames
    audio_queue,            \* self.audio_queue
    stream,                 \* the device stream of record_audio_vad
    recording_thread,       \* position of the capture thread
    transcription_thread,   \* position of the worker thread
    audio_file,             \* the worker's local audio_file
    stop_pc,                \* position of the caller inside stop()
    stops,                  \* number of stop() calls made
    pushed,                 \* history: every Segment put on the queue
    transcribed,            \* history: every Segment given to the backend
    trig_frame,             \* history: frame whose arrival caused the onset
    ev,                     \* history: the segmenter's last decision and
                            \*   the decisions in the ring buffer it saw
    stop_mark,              \* history: Len(pushed) at the first stop()
    stop_trig,              \* history: first stop() found an utterance open
    tempfiles,              \* the temporary WAV files that exist, by push number
    vad_failed,             \* history: the classifier raised on the last frame
    transcript_entries,     \* transcript_logger.transcript_entries
    saved,                  \* the transcript file save_transcript wrote
    session_start_time,     \* transcript_logger.session_start_time, 0: None
    last_save,              \* the last save_transcript call and its result
    chunk_frames,           \* record_audio_chunk's local list, frames
    stop_frames,            \* history: that list when stop() was first called
    transcription_times,    \* self.transcription_times, by Segment number
    total_segments,         \* self.total_segments
    streak                  \* history: the run of latest frames that got the
                            \*   same decision in the same segmenter state

vars == << script, cls, loads, start_pc, nframes, model, is_recording,
           triggered, ring_buffer, voiced_frames, audio_queue, stream, recording_thread,
           transcription_thread, audio_file, stop_pc, stops, pushed,
           transcribed, trig_frame, ev, stop_mark, stop_trig, tempfiles,
           vad_failed, transcript_entries, saved, streak,
           transcription_times, total_segments, session_start_time,
           last_save, chunk_frames, stop_frames >>

-----------------------------------------------------------------------------
\* The input streams

Scripts == {"free", "e2e", "silence"}

\* VADLiveTranscriber and FasterWhisperLiveTranscriber; the freely
\* classified streams are run on the first, the fixed streams on both
Classes == {"vad", "faster"}

ClassesFor(s) == IF s = "free" THEN {"vad"} ELSE Classes

\* 20 non-speech, 40 speech, 20 non-speech frames
E2EFrames == 20 + 40 + 20

E2ESpeech(i) == i > 20 /\ i <= 20 + 40

FrameBudget(s) == IF s = "e2e" THEN E2EFrames ELSE MaxFrames

\* What the classifier (webrtcvad) may answer for frame i
VadOutcomes(s, i) ==
    CASE s = "e2e" -> IF E2ESpeech(i) THEN {"speech"}
                      ELSE {"nonspeech", "error"}
      [] s = "silence" -> {"nonspeech", "error"}
      [] OTHER -> {"speech", "nonspeech"}

\* an is_speech whose except branch returns True
is_speech_error_true(o) == o # "nonspeech"

\* is_speech(): the classifier's answer, False when it raises
is_speech(o) == o = "speech"

-----------------------------------------------------------------------------
\* The segmenter's helpers

NoFile == [frames |-> << >>, by |-> "none", onset |-> 0, at |-> 0, n |-> 0]

\* no transcript file written
\* the return value None of save_transcript
NoLocation == [dir |-> "", stamp |-> 0]

NoTranscript ==
    [written |-> FALSE, location |-> NoLocation, entries |-> << >>]

\* no save_transcript call yet
NoSave ==
    [calls |-> 0, output_dir |-> "", session |-> 0, had |-> 0,
     ret |-> NoLocation]

\* The run of consecutive latest frames that were given the decision s and
\* arrived while self.triggered had the value trig; counted up to one more
\* than the padding window
NoStreak == [s |-> FALSE, trig |-> FALSE, len |-> 0]

NextStreak(st, s, trig) ==
    IF st.len > 0 /\ st.s = s /\ st.trig = trig
    THEN [st EXCEPT !.len = IF @ > ring_buffer_size THEN @ ELSE @ + 1]
    ELSE [s |-> s, trig |-> trig, len |-> 1]

NoEv == [mode |-> "none", win |-> << >>, frames |-> << >>, fired |-> FALSE]

\* a bounded buffer that, when full, replaces its newest entry
DequeAppend_evictnew(rb, x) ==
    IF Len(rb) = ring_buffer_size
    THEN Append(SubSeq(rb, 1, Len(rb) - 1), x)
    ELSE Append(rb, x)

\* a bounded buffer that, when full, refuses the new entry
DequeAppend_dropnew(rb, x) ==
    IF Len(rb) = ring_buffer_size THEN rb ELSE Append(rb, x)

\* collections.deque(maxlen=...).append
DequeAppend(rb, x) ==
    IF Len(rb) = ring_buffer_size THEN Append(Tail(rb), x) ELSE Append(rb, x)

RECURSIVE CountSpeech(_, _)
CountSpeech(rb, b) ==
    IF rb = << >> THEN 0
    ELSE (IF Head(rb).s = b THEN 1 ELSE 0) + CountSpeech(Tail(rb), b)

\* [f for f, s in self.ring_buffer]
RingFrames(rb) == [i \in 1..Len(rb) |-> rb[i].f]

\* the is_speech decisions held in the ring buffer, oldest first
RingSpeech(rb) == [i \in 1..Len(rb) |-> rb[i].s]


\* the onset test written with >= instead of >
OnsetFires_atleast(rb) == 10 * CountSpeech(rb, TRUE) >= 9 * ring_buffer_size

\* the onset test taken against the number of frames held
OnsetFires_fraction(rb) == 10 * CountSpeech(rb, TRUE) > 9 * Len(rb)

\* an onset test satisfied by a simple majority of the capacity
OnsetFires_majority(rb) == 2 * CountSpeech(rb, TRUE) > ring_buffer_size

\* num_voiced > 0.9 * self.ring_buffer.maxlen
OnsetFires(rb) == 10 * CountSpeech(rb, TRUE) > 9 * ring_buffer_size

\* the offset test written with >= instead of >
OffsetFires_atleast(rb) == 10 * CountSpeech(rb, FALSE) >= 9 * ring_buffer_size

\* num_unvoiced > 0.9 * self.ring_buffer.maxlen
OffsetFires(rb) == 10 * CountSpeech(rb, FALSE) > 9 * ring_buffer_size

\* the onset forgetting to copy the ring buffer into the utterance
SeedFromRing_nolead(vf, rb) == vf

\* an onset that copies only the newest frame of the ring buffer
SeedFromRing_last(vf, rb) == Append(vf, rb[Len(rb)].f)

\* self.voiced_frames.extend([f for f, s in self.ring_buffer])
SeedFromRing(vf, rb) == vf \o RingFrames(rb)

\* the minimum-length test with its comparison inverted
LongEnough_inverted(vf) == Len(vf) < MinFrames

\* len(self.voiced_frames) > 10
LongEnough(vf) == Len(vf) > MinFrames

\* a file that receives only the trailing padding window of the frames
save_audio_segment_tail(frames) ==
    IF Len(frames) <= ring_buffer_size THEN frames
    ELSE SubSeq(frames, Len(frames) - ring_buffer_size + 1, Len(frames))

\* save_audio_segment(frames): the frames written to the temporary file
save_audio_segment(frames) == frames

\* self.audio_queue.put(temp_filename), with the history fields
Segment(frames, by, at) ==
    [frames |-> save_audio_segment(frames), by |-> by,
     onset |-> trig_frame, at |-> at, n |-> Len(pushed) + 1]

\* a queue created with room for one item: Queue(maxsize=1)
QueueFull_one(q) == Len(q) >= 1

\* queue.Queue(): put blocks only when maxsize > 0 and the queue holds maxsize
QueueFull(q) == maxsize > 0 /\ Len(q) >= maxsize

\* a get without timeout, which never raises queue.Empty
GetTimesOut_never(q) == FALSE

\* audio_queue.get(timeout=1) raises queue.Empty when nothing arrives
GetTimesOut(q) == q = << >>

\* a join that returns without waiting for the thread
Joined_nowait(t) == TRUE

\* Thread.join(): returns once the thread has terminated
Joined(t) == t = "done"

\* a finally block that leaves the device stream open
CloseStream_leak(st) == st

\* if 'stream' in locals(): stream.stop_stream(); stream.close()
CloseStream(st) == IF st = "open" THEN "closed" ELSE st

\* a queue that hands out the newest item first
QueueGet_lifo(q) == [item |-> q[Len(q)], rest |-> SubSeq(q, 1, Len(q) - 1)]

\* self.audio_queue.get(): the item taken and the queue left
QueueGet(q) == [item |-> Head(q), rest |-> Tail(q)]

-----------------------------------------------------------------------------
\* the fields after __init__, the same in the three transcriber classes
Constructed ==
    /\ loads = 0
    /\ start_pc = "none"
    /\ vad_failed = FALSE
    /\ nframes = 0
    /\ model = "none"
    /\ is_recording = FALSE
    /\ triggered = FALSE
    /\ ring_buffer = << >>
    /\ voiced_frames = << >>
    /\ audio_queue = << >>
    /\ stream = "none"
    /\ recording_thread = "none"
    /\ transcription_thread = "none"
    /\ audio_file = NoFile
    /\ stop_pc = "idle"
    /\ stops = 0
    /\ pushed = << >>
    /\ transcribed = << >>
    /\ trig_frame = 0
    /\ ev = NoEv
    /\ stop_mark = 0
    /\ stop_trig = FALSE
    /\ tempfiles = {}
    /\ transcript_entries = << >>
    /\ saved = NoTranscript
    /\ streak = NoStreak
    /\ transcription_times = << >>
    /\ total_segments = 0
    /\ session_start_time = 0
    /\ last_save = NoSave
    /\ chunk_frames = << >>
    /\ stop_frames = << >>

Init ==
    /\ script \in Scripts
    /\ cls \in ClassesFor(script)
    /\ Constructed

segmenter ==
    << triggered, ring_buffer, voiced_frames, trig_frame, ev, vad_failed,
       streak >>
setup == << script, cls, loads, start_pc >>
perf == << transcription_times, total_segments >>
logger == << session_start_time, last_save >>
chunk == << chunk_frames, stop_frames >>
worker ==
    << transcription_thread, audio_file, transcribed, transcript_entries >>
stopper == << stop_pc, stops, stop_mark, stop_trig >>

-----------------------------------------------------------------------------
\* a load_model that falls back to CPU/int8 in both classes
load_model_fallback_all(c, first, second) ==
    IF first THEN [ok |-> TRUE, tries |-> 1]
    ELSE [ok |-> second, tries |-> 2]

\* load_model(): whether a model handle results and how many constructions
\* were tried, given whether the first and the fallback construction work.
\* FasterWhisperLiveTranscriber catches the first failure and constructs
\* the model again with device "cpu" and compute type "int8";
\* VADLiveTranscriber lets the exception out.
load_model(c, first, second) ==
    IF first THEN [ok |-> TRUE, tries |-> 1]
    ELSE IF c = "faster" THEN [ok |-> second, tries |-> 2]
    ELSE [ok |-> FALSE, tries |-> 1]

\* FasterWhisperLiveTranscriber and LiveTranscriber own a TranscriptLogger,
\* VADLiveTranscriber has none
HasLogger(c) == c \in {"faster", "chunked"}

\* transcript_logger.start_session(...): self.transcript_entries = []
start_session(c, entries) == IF HasLogger(c) THEN << >> ELSE entries

\* the readings datetime.now() can give, in seconds, when the session
\* before (if any) started at t: the clock does not run backwards.  Start
\* times are only compared for equality, so the seconds are numbered in the
\* order in which sessions start in them: the reading is the second of the
\* session before or the next one
Now(t) == {u \in 1..MaxTime : u >= t /\ u <= t + 1}

\* transcript_logger.start_session(...): self.session_start_time =
\* datetime.now()
session_start(c, t, now) == IF HasLogger(c) THEN now ELSE t

\* a start() that skips the model load
Start_noload ==
    /\ start_pc = "none"
    /\ recording_thread = "none"
    /\ stop_pc = "idle"
    /\ loads' = loads
    /\ model' = model
    /\ is_recording' = TRUE
    /\ recording_thread' = "open"
    /\ transcription_thread' = "loop"
    /\ start_pc' = "running"
    /\ transcript_entries' = start_session(cls, transcript_entries)
    /\ \E now \in Now(session_start_time) :
          session_start_time' = session_start(cls, session_start_time, now)
    /\ UNCHANGED << script, cls, perf, chunk, nframes, segmenter, audio_queue, stream,
                    audio_file, transcribed, pushed, stopper, tempfiles,
                    saved, last_save >>

\* start(): load the model if needed, set the flag, start both threads; an
\* exception out of load_model ends start() before it sets anything
Start ==
    /\ start_pc = "none"
    /\ recording_thread = "none"
    /\ stop_pc = "idle"
    /\ \E first \in BOOLEAN, second \in BOOLEAN :
          LET r == load_model(cls, first, second) IN
          /\ loads' = r.tries
          /\ IF r.ok
             THEN /\ model' = "loaded"
                  /\ is_recording' = TRUE
                  /\ recording_thread' = "open"
                  /\ transcription_thread' = "loop"
                  /\ start_pc' = "running"
                  /\ transcript_entries' =
                        start_session(cls, transcript_entries)
                  /\ \E now \in Now(session_start_time) :
                        session_start_time' =
                            session_start(cls, session_start_time, now)
             ELSE /\ start_pc' = "raised"
                  /\ UNCHANGED << model, is_recording, recording_thread,
                                  transcription_thread, transcript_entries,
                                  session_start_time >>
    /\ UNCHANGED << script, cls, perf, chunk, nframes, segmenter, audio_queue, stream,
                    audio_file, transcribed, pushed, stopper, tempfiles,
                    saved, last_save >>

-----------------------------------------------------------------------------
\* The capture thread: record_audio_vad

\* stream = self.p.open(...), which may raise
RecOpen ==
    /\ recording_thread = "open"
    /\ \/ stream' = "open" /\ recording_thread' = "loop"
       \/ stream' = stream /\ recording_thread' = "finally"
    /\ UNCHANGED << setup, saved, logger, chunk, perf, nframes, model, is_recording,
                    segmenter,
                    audio_queue, worker, pushed, stopper, tempfiles >>

\* while self.is_recording: (the model follows at most FrameBudget frames)
RecLoop ==
    /\ recording_thread = "loop"
    /\ is_recording => nframes < FrameBudget(script)
    /\ recording_thread' = IF is_recording THEN "read" ELSE "finally"
    /\ UNCHANGED << setup, saved, logger, chunk, perf, nframes, model, is_recording,
                    segmenter,
                    audio_queue, stream, worker, pushed, stopper,
                    tempfiles >>

\* stream.read raises: except Exception, then the finally block
RecReadError ==
    /\ recording_thread = "read"
    /\ recording_thread' = "finally"
    /\ UNCHANGED << setup, saved, logger, chunk, perf, nframes, model, is_recording,
                    segmenter,
                    audio_queue, stream, worker, pushed, stopper,
                    tempfiles >>

\* One frame read, classified and run through the segmenter, up to and
\* including the put of a Segment when the offset fires
SegmentFrame(o) ==
    /\ recording_thread = "read"
    /\  LET frame == nframes + 1
            rb == DequeAppend(ring_buffer, [f |-> frame, s |-> is_speech(o)])
        IN
        /\ nframes' = frame
        /\ IF ~triggered
           THEN /\ ev' = [mode |-> "idle", win |-> RingSpeech(rb),
                          frames |-> RingFrames(rb),
                          fired |-> OnsetFires(rb)]
                /\ IF OnsetFires(rb)
                   THEN /\ triggered' = TRUE
                        /\ voiced_frames' = SeedFromRing(voiced_frames, rb)
                        /\ ring_buffer' = << >>
                        /\ trig_frame' = frame
                   ELSE /\ ring_buffer' = rb
                        /\ UNCHANGED << triggered, voiced_frames, trig_frame >>
                /\ recording_thread' = "loop"
                /\ UNCHANGED << audio_queue, pushed, tempfiles >>
           ELSE LET vf == Append(voiced_frames, frame) IN
                /\ ev' = [mode |-> "trig", win |-> RingSpeech(rb),
                          frames |-> RingFrames(rb),
                          fired |-> OffsetFires(rb)]
                /\ voiced_frames' = vf
                /\ ring_buffer' = rb
                /\ trig_frame' = trig_frame
                /\ IF OffsetFires(rb)
                   THEN /\ triggered' = FALSE
                        /\ IF LongEnough(vf)
                           THEN /\ ~QueueFull(audio_queue)
                                /\ audio_queue' =
                                     Append(audio_queue, Segment(vf, "offset", frame))
                                /\ pushed' = Append(pushed, Segment(vf, "offset", frame))
                                /\ tempfiles' = tempfiles \cup {Len(pushed) + 1}
                           ELSE UNCHANGED << audio_queue, pushed, tempfiles >>
                        /\ recording_thread' = "reset"
                   ELSE /\ triggered' = triggered
                        /\ recording_thread' = "loop"
                        /\ UNCHANGED << audio_queue, pushed, tempfiles >>
    /\ UNCHANGED << setup, saved, logger, chunk, perf, model, is_recording, stream, worker,
                    stopper >>

RecFrameWith(o) ==
    /\ SegmentFrame(o)
    /\ vad_failed' = (o = "error")
    /\ streak' = NextStreak(streak, is_speech(o), triggered)

RecFrame == \E o \in VadOutcomes(script, nframes + 1) : RecFrameWith(o)

\* a reset that forgets self.ring_buffer.clear()
RecReset_keepring ==
    /\ recording_thread = "reset"
    /\ voiced_frames' = << >>
    /\ ring_buffer' = ring_buffer
    /\ recording_thread' = "loop"
    /\ UNCHANGED << setup, saved, logger, chunk, perf, nframes, model, is_recording,
                    triggered,
                    trig_frame, ev, vad_failed, streak, audio_queue, stream,
                    worker, pushed, stopper, tempfiles >>

\* self.voiced_frames = []; self.ring_buffer.clear()
RecReset ==
    /\ recording_thread = "reset"
    /\ voiced_frames' = << >>
    /\ ring_buffer' = << >>
    /\ recording_thread' = "loop"
    /\ UNCHANGED << setup, saved, logger, chunk, perf, nframes, model, is_recording,
                    triggered,
                    trig_frame, ev, vad_failed, streak, audio_queue, stream,
                    worker, pushed, stopper, tempfiles >>

\* the exit flush without its "if self.voiced_frames" test
FlushAtExit_always(vf) == TRUE

\* finally: close the stream if it was opened, flush remaining voiced frames
FlushAtExit(vf) == vf # << >>

RecFinally ==
    /\ recording_thread = "finally"
    /\ stream' = CloseStream(stream)
    /\ IF FlushAtExit(voiced_frames)
       THEN /\ ~QueueFull(audio_queue)
            /\ audio_queue' = Append(audio_queue, Segment(voiced_frames, "exit", nframes))
            /\ pushed' = Append(pushed, Segment(voiced_frames, "exit", nframes))
            /\ tempfiles' = tempfiles \cup {Len(pushed) + 1}
       ELSE UNCHANGED << audio_queue, pushed, tempfiles >>
    /\ recording_thread' = "done"
    /\ UNCHANGED << setup, saved, logger, chunk, perf, nframes, model, is_recording,
                    segmenter,
                    worker, stopper >>

-----------------------------------------------------------------------------
\* The worker thread: transcribe_worker

\* while self.is_recording or not self.audio_queue.empty():
WorkerLoop ==
    /\ transcription_thread = "loop"
    /\ transcription_thread' =
          IF is_recording \/ audio_queue # << >> THEN "get" ELSE "done"
    /\ UNCHANGED << setup, saved, logger, chunk, perf, nframes, model, is_recording,
                    segmenter,
                    audio_queue, stream, recording_thread, audio_file,
                    transcribed, transcript_entries, pushed, stopper,
                    tempfiles >>

\* audio_file = self.audio_queue.get(timeout=1)
WorkerGet ==
    /\ transcription_thread = "get"
    /\ audio_queue # << >>
    /\ audio_file' = QueueGet(audio_queue).item
    /\ audio_queue' = QueueGet(audio_queue).rest
    /\ transcription_thread' = "transcribe"
    /\ UNCHANGED << setup, saved, logger, chunk, perf, nframes, model, is_recording,
                    segmenter,
                    stream, recording_thread, transcribed,
                    transcript_entries, pushed, stopper, tempfiles >>

\* except queue.Empty: continue
WorkerEmpty ==
    /\ transcription_thread = "get"
    /\ GetTimesOut(audio_queue)
    /\ transcription_thread' = "loop"
    /\ UNCHANGED << setup, saved, logger, chunk, perf, nframes, model, is_recording,
                    segmenter,
                    audio_queue, stream, recording_thread, audio_file,
                    transcribed, transcript_entries, pushed, stopper,
                    tempfiles >>

\* What self.model.transcribe may do with a Segment: return text, return
\* only blanks, or raise (a backend that raises is exercised on the fixed
\* streams)
TranscribeOutcomes(s) ==
    IF s = "free" THEN {"text", "empty"} ELSE {"text", "empty", "error"}

\* an unlink placed in a finally block, run on every path
unlink_always(files, f, r) == files \ {f.n}

\* os.unlink(audio_file), reached only when transcribe did not raise
unlink(files, f, r) == IF r = "error" THEN files ELSE files \ {f.n}

\* a worker that logs an entry for every result, blank or not
add_transcript_always(c, entries, f, r) ==
    IF HasLogger(c) /\ r # "error"
    THEN Append(entries, [n |-> f.n, text |-> r])
    ELSE entries

\* text = transcription_text.strip(); if text: ...add_transcript(text=text):
\* the entry is appended only for a non-blank text, and only by a class
\* that has a transcript logger
add_transcript(c, entries, f, r) ==
    IF HasLogger(c) /\ r = "text"
    THEN Append(entries, [n |-> f.n, text |-> r])
    ELSE entries

\* a counter incremented before the transcribe call, so on every Segment
count_segment_always(c, total, r) == IF c = "faster" THEN total + 1 ELSE total

\* self.total_segments += 1, reached only when transcribe and the reading
\* of its segments did not raise; only FasterWhisperLiveTranscriber counts
count_segment(c, total, r) ==
    IF c = "faster" /\ r # "error" THEN total + 1 ELSE total

\* self.transcription_times.append(transcription_duration): the duration
\* is recorded as the number of the Segment it was measured for
record_time(c, times, f, r) ==
    IF c = "faster" /\ r # "error" THEN Append(times, f.n) ELSE times

\* self.model.transcribe(audio_file, ...), the counters, the prints, the
\* transcript entry and os.unlink; or the "except Exception" handler that
\* prints the error
WorkerTranscribeWith(r) ==
    /\ transcription_thread = "transcribe"
    /\ transcription_times' =
          record_time(cls, transcription_times, audio_file, r)
    /\ total_segments' = count_segment(cls, total_segments, r)
    /\ tempfiles' = unlink(tempfiles, audio_file, r)
    /\ transcript_entries' =
          add_transcript(cls, transcript_entries, audio_file, r)
    /\ transcribed' = Append(transcribed, audio_file)
    /\ audio_file' = NoFile
    /\ transcription_thread' = "loop"
    /\ UNCHANGED << setup, saved, logger, chunk, nframes, model, is_recording, segmenter,
                    audio_queue, stream, recording_thread, pushed, stopper >>

WorkerTranscribe ==
    \E r \in TranscribeOutcomes(script) : WorkerTranscribeWith(r)

-----------------------------------------------------------------------------
\* stop(), called by the thread that called start()

\* self.is_recording = False
StopCall ==
    /\ recording_thread # "none"
    /\ stop_pc \in {"idle", "returned"}
    /\ stops < MaxStops
    /\ is_recording' = FALSE
    /\ stops' = stops + 1
    /\ stop_pc' = "check"
    /\ IF stops = 0
       THEN /\ stop_mark' = Len(pushed)
            /\ stop_trig' = (triggered /\ voiced_frames # << >>)
       ELSE UNCHANGED << stop_mark, stop_trig >>
    /\ UNCHANGED << setup, saved, logger, chunk, perf, nframes, model, segmenter, audio_queue,
                    stream,
                    recording_thread, worker, pushed, tempfiles >>

\* if self.voiced_frames:
StopCheck ==
    /\ stop_pc = "check"
    /\ stop_pc' = IF voiced_frames # << >> THEN "flush" ELSE "join_rec"
    /\ UNCHANGED << setup, saved, logger, chunk, perf, nframes, model, is_recording,
                    segmenter,
                    audio_queue, stream, recording_thread, worker, pushed,
                    stops, stop_mark, stop_trig, tempfiles >>

\* temp_filename = self.save_audio_segment(self.voiced_frames); put
StopFlush ==
    /\ stop_pc = "flush"
    /\ ~QueueFull(audio_queue)
    /\ audio_queue' = Append(audio_queue, Segment(voiced_frames, "stop", nframes))
    /\ pushed' = Append(pushed, Segment(voiced_frames, "stop", nframes))
    /\ tempfiles' = tempfiles \cup {Len(pushed) + 1}
    /\ stop_pc' = "join_rec"
    /\ UNCHANGED << setup, saved, logger, chunk, perf, nframes, model, is_recording,
                    segmenter,
                    stream,
                    recording_thread, worker, stops, stop_mark, stop_trig >>

\* self.recording_thread.join()
StopJoinRecording ==
    /\ stop_pc = "join_rec"
    /\ Joined(recording_thread)
    /\ stop_pc' = "join_wk"
    /\ UNCHANGED << setup, saved, logger, chunk, perf, nframes, model, is_recording,
                    segmenter,
                    audio_queue, stream, recording_thread, worker, pushed,
                    stops, stop_mark, stop_trig, tempfiles >>

\* self.transcription_thread.join(); a class with a transcript logger goes
\* on to save the transcript
StopJoinTranscription ==
    /\ stop_pc = "join_wk"
    /\ Joined(transcription_thread)
    /\ stop_pc' = IF HasLogger(cls) THEN "save" ELSE "returned"
    /\ UNCHANGED << setup, saved, logger, chunk, perf, nframes, model, is_recording,
                    segmenter,
                    audio_queue, stream, recording_thread, worker, pushed,
                    stops, stop_mark, stop_trig, tempfiles >>

\* a save_transcript that empties the log once the file is written
entries_after_save_cleared(entries) == << >>

\* what save_transcript leaves in transcript_entries: it only reads them
entries_after_save(entries) == entries

\* the values of the output_dir argument; "transcripts" is its default
Dirs == {"transcripts", "out"}

\* os.path.join(output_dir, "transcript_<session start, to the second>.txt")
Filename(output_dir, t) == [dir |-> output_dir, stamp |-> t]

\* a save_transcript without the early return
save_transcript_unguarded(file, entries, t, output_dir, ok) ==
    IF ~ok THEN file
    ELSE [written |-> TRUE, location |-> Filename(output_dir, t),
          entries |-> entries]

\* save_transcript(): nothing is written when there are no entries or no
\* session was started; otherwise the file named after the session start
\* is (re)written with every entry, unless opening or writing it raises
save_transcript(file, entries, t, output_dir, ok) ==
    IF entries = << >> \/ t = 0 \/ ~ok THEN file
    ELSE [written |-> TRUE, location |-> Filename(output_dir, t),
          entries |-> entries]

\* what save_transcript returns: None from the early return and from the
\* "except Exception" handler, the file name otherwise
save_transcript_return(entries, t, output_dir, ok) ==
    IF entries = << >> \/ t = 0 \/ ~ok THEN NoLocation
    ELSE Filename(output_dir, t)

\* one call of transcript_logger.save_transcript(output_dir)
SaveCall(output_dir) ==
    /\ \E ok \in BOOLEAN :
          /\ saved' = save_transcript(saved, transcript_entries,
                                      session_start_time, output_dir, ok)
          /\ last_save' =
                [calls |-> last_save.calls + 1,
                 output_dir |-> output_dir,
                 session |-> session_start_time,
                 had |-> Len(transcript_entries),
                 ret |-> save_transcript_return(transcript_entries,
                             session_start_time, output_dir, ok)]
    /\ transcript_entries' = entries_after_save(transcript_entries)
    /\ session_start_time' = session_start_time

\* self.transcript_logger.save_transcript()
StopSave ==
    /\ stop_pc = "save"
    /\ SaveCall("transcripts")
    /\ stop_pc' = "returned"
    /\ UNCHANGED << setup, perf, chunk, nframes, model, is_recording, segmenter,
                    audio_queue, stream, recording_thread,
                    transcription_thread, audio_file, transcribed, pushed,
                    stops, stop_mark, stop_trig, tempfiles >>

-----------------------------------------------------------------------------
Next ==
    \/ Start
    \/ RecOpen
    \/ RecLoop
    \/ RecReadError
    \/ RecFrame
    \/ RecReset
    \/ RecFinally
    \/ WorkerLoop
    \/ WorkerGet
    \/ WorkerEmpty
    \/ WorkerTranscribe
    \/ StopCall
    \/ StopCheck
    \/ StopFlush
    \/ StopJoinRecording
    \/ StopJoinTranscription
    \/ StopSave

Spec == Init /\ [][Next]_vars

\* The steps of each thread.  Both threads are scheduled again and again,
\* every stream.read and every transcribe call returns, and the caller of
\* stop() keeps running: weak fairness on each thread's next step.
CaptureStep ==
    RecOpen \/ RecLoop \/ RecReadError \/ RecFrame \/ RecReset \/ RecFinally

WorkerStep == WorkerLoop \/ WorkerGet \/ WorkerEmpty \/ WorkerTranscribe

StopStep ==
    \/ StopCheck
    \/ StopFlush
    \/ StopJoinRecording
    \/ StopJoinTranscription
    \/ StopSave

Fairness ==
    /\ WF_vars(CaptureStep)
    /\ WF_vars(WorkerStep)
    /\ WF_vars(StopStep)

\* The chunked LiveTranscriber of whisper_live.py.  Its start(), its
\* transcribe_worker, the joins of its stop() and the save of the transcript
\* have the statements of the classes above; its capture thread
\* record_audio_chunk and the head of its stop() are its own.

\* the frames of one chunk: int(sample_rate / chunk_size * chunk_duration),
\* scaled down
ChunkBudget == MaxChunks * ChunkFrames

\* stream = self.p.open(...), which may raise
ChunkOpen ==
    /\ cls = "chunked"
    /\ recording_thread = "open"
    /\ \/ stream' = "open" /\ recording_thread' = "c_while"
       \/ stream' = stream /\ recording_thread' = "c_finally"
    /\ UNCHANGED << setup, saved, logger, perf, chunk, nframes, model,
                    is_recording, segmenter, audio_queue, worker, pushed,
                    stopper, tempfiles >>

\* while self.is_recording: frames = []  (the model follows at most
\* ChunkBudget frames)
ChunkWhile ==
    /\ recording_thread = "c_while"
    /\ is_recording => nframes < ChunkBudget
    /\ IF is_recording
       THEN chunk_frames' = << >> /\ recording_thread' = "c_for"
       ELSE chunk_frames' = chunk_frames /\ recording_thread' = "c_finally"
    /\ UNCHANGED << setup, saved, logger, perf, stop_frames, nframes, model,
                    is_recording, segmenter, audio_queue, stream, worker,
                    pushed, stopper, tempfiles >>

\* for _ in range(...): if not self.is_recording: break
ChunkFor ==
    /\ recording_thread = "c_for"
    /\ recording_thread' =
          IF Len(chunk_frames) < ChunkFrames /\ is_recording
          THEN "c_read" ELSE "c_test"
    /\ UNCHANGED << setup, saved, logger, perf, chunk, nframes, model,
                    is_recording, segmenter, audio_queue, stream, worker,
                    pushed, stopper, tempfiles >>

\* data = stream.read(...); frames.append(data)
ChunkRead ==
    /\ recording_thread = "c_read"
    /\ nframes' = nframes + 1
    /\ chunk_frames' = Append(chunk_frames, nframes + 1)
    /\ recording_thread' = "c_for"
    /\ UNCHANGED << setup, saved, logger, perf, stop_frames, model,
                    is_recording, segmenter, audio_queue, stream, worker,
                    pushed, stopper, tempfiles >>

\* stream.read raises: except Exception, then the finally block
ChunkReadError ==
    /\ recording_thread = "c_read"
    /\ recording_thread' = "c_finally"
    /\ UNCHANGED << setup, saved, logger, perf, chunk, nframes, model,
                    is_recording, segmenter, audio_queue, stream, worker,
                    pushed, stopper, tempfiles >>

\* a test that pushes whatever was read
chunk_ready_noflag(fr, flag) == fr # << >>

\* if frames and self.is_recording:
chunk_ready(fr, flag) == fr # << >> /\ flag

ChunkTest ==
    /\ recording_thread = "c_test"
    /\ recording_thread' =
          IF chunk_ready(chunk_frames, is_recording) THEN "c_put" ELSE "c_while"
    /\ UNCHANGED << setup, saved, logger, perf, chunk, nframes, model,
                    is_recording, segmenter, audio_queue, stream, worker,
                    pushed, stopper, tempfiles >>

\* the chunk is written to a temporary file and the file name is put on
\* the queue; or writing the file raises
ChunkPut ==
    /\ recording_thread = "c_put"
    /\ \/ /\ ~QueueFull(audio_queue)
          /\ audio_queue' =
                Append(audio_queue, Segment(chunk_frames, "chunk", nframes))
          /\ pushed' = Append(pushed, Segment(chunk_frames, "chunk", nframes))
          /\ tempfiles' = tempfiles \cup {Len(pushed) + 1}
          /\ recording_thread' = "c_while"
       \/ /\ recording_thread' = "c_finally"
          /\ UNCHANGED << audio_queue, pushed, tempfiles >>
    /\ UNCHANGED << setup, saved, logger, perf, chunk, nframes, model,
                    is_recording, segmenter, stream, worker, stopper >>

\* finally: close the stream if it was opened; nothing is flushed
ChunkFinally ==
    /\ recording_thread = "c_finally"
    /\ stream' = CloseStream(stream)
    /\ recording_thread' = "done"
    /\ UNCHANGED << setup, saved, logger, perf, chunk, nframes, model,
                    is_recording, segmenter, audio_queue, worker, pushed,
                    stopper, tempfiles >>

\* the capture thread is reading a chunk: past "frames = []" and not yet
\* past the test of the flag that follows the for loop
ReadingChunk == recording_thread \in {"c_for", "c_read", "c_test"}

\* stop(): self.is_recording = False, then straight to the joins
ChunkStopCall ==
    /\ cls = "chunked"
    /\ recording_thread # "none"
    /\ stop_pc \in {"idle", "returned"}
    /\ stops < MaxStops
    /\ is_recording' = FALSE
    /\ stops' = stops + 1
    /\ stop_pc' = "join_rec"
    /\ IF stops = 0
       THEN /\ stop_mark' = Len(pushed)
            /\ stop_frames' = IF ReadingChunk THEN chunk_frames ELSE << >>
       ELSE UNCHANGED << stop_mark, stop_frames >>
    /\ UNCHANGED << setup, saved, logger, perf, chunk_frames, nframes, model,
                    segmenter, audio_queue, stream, recording_thread, worker,
                    pushed, stop_trig, tempfiles >>

ChunkedInit == script = "chunks" /\ cls = "chunked" /\ Constructed

ChunkedNext ==
    \/ Start
    \/ ChunkOpen
    \/ ChunkWhile
    \/ ChunkFor
    \/ ChunkRead
    \/ ChunkReadError
    \/ ChunkTest
    \/ ChunkPut
    \/ ChunkFinally
    \/ WorkerLoop
    \/ WorkerGet
    \/ WorkerEmpty
    \/ WorkerTranscribe
    \/ ChunkStopCall
    \/ StopJoinRecording
    \/ StopJoinTranscription
    \/ StopSave

ChunkedSpec == ChunkedInit /\ [][ChunkedNext]_vars

\* A TranscriptLogger used on its own: start_session, add_transcript and
\* save_transcript are public and may be called in any order.  The
\* transcriber that owns the logger is constructed and never started.
transcriber ==
    << setup, perf, chunk, nframes, model, is_recording, segmenter,
       audio_queue, stream, recording_thread, transcription_thread,
       audio_file, transcribed, pushed, stopper, tempfiles >>

LoggerInit == Init /\ script = "silence" /\ cls = "faster"

\* logger.start_session()
LoggerStartSession ==
    /\ \E now \in Now(session_start_time) :
          session_start_time' =
              session_start("faster", session_start_time, now)
    /\ transcript_entries' = start_session("faster", transcript_entries)
    /\ UNCHANGED << transcriber, saved, last_save >>

\* logger.add_transcript(text) with a non-empty text
LoggerAddTranscript ==
    /\ Len(transcript_entries) < MaxEntries
    /\ transcript_entries' =
          add_transcript("faster", transcript_entries,
                         [n |-> Len(transcript_entries) + 1], "text")
    /\ UNCHANGED << transcriber, saved, logger >>

\* logger.save_transcript(output_dir)
LoggerSaveTranscript ==
    /\ last_save.calls < MaxSaves
    /\ \E output_dir \in Dirs : SaveCall(output_dir)
    /\ UNCHANGED transcriber

LoggerNext ==
    \/ LoggerStartSession
    \/ LoggerAddTranscript
    \/ LoggerSaveTranscript

LoggerSpec == LoggerInit /\ [][LoggerNext]_vars

\* The sessions fed with one of the two fixed streams
InitScripted == Init /\ script # "free"

FairScripted == InitScripted /\ [][Next]_vars /\ Fairness


-----------------------------------------------------------------------------
\* Properties

OffsetSegments == {i \in 1..Len(pushed) : pushed[i].by = "offset"}

NumTrue(w) == Cardinality({i \in 1..Len(w) : w[i]})
NumFalse(w) == Cardinality({i \in 1..Len(w) : ~w[i]})

\* C1: when the first stop() found the segmenter Triggered with a non-empty
\* utterance buffer, then once stop() has returned exactly one Segment was
\* pushed since the stop request, and it holds every frame of the buffer.
C1_OneFinalSegment ==
    (stops = 1 /\ stop_pc = "returned" /\ stop_trig) =>
        /\ Len(pushed) = stop_mark + 1
        /\ voiced_frames # << >> =>
               pushed[Len(pushed)].frames = voiced_frames

\* C2: when stop() has returned, the queue is empty and every Segment that
\* was pushed has been popped and given to the transcription backend.
C2_NoSegmentLost ==
    (stops = 1 /\ stop_pc = "returned") =>
        /\ audio_queue = << >>
        /\ transcribed = pushed

\* C3: from the second call of stop() on, no step pushes a Segment: the
\* queue and the push history stay as the first stop() left them.
C3_StopIdempotent ==
    [][stops >= 2 => (audio_queue' = audio_queue /\ pushed' = pushed)]_vars

\* C4: every Segment pushed by offset detection has more than MinFrames
\* (10) frames.
C4_OffsetSegmentsLong ==
    \A i \in OffsetSegments : Len(pushed[i].frames) > MinFrames

C4_Witness ==
    \E i \in OffsetSegments : Len(pushed[i].frames) = 2 * ring_buffer_size

\* C5 as stated: in Idle the onset fires on a frame exactly when at least
\* 90% of the ring buffer's capacity (9 of 10 frames) is speech.
C5_OnsetAtNinetyPercent ==
    ev.mode = "idle" =>
        (ev.fired <=> 10 * NumTrue(ev.win) >= 9 * ring_buffer_size)

\* C5 as amended: in Idle the onset fires on a frame exactly when the ring
\* buffer is full and all of its 10 frames, the frame just pushed included,
\* are speech (more than 90%); with 9 of 10 it does not fire.
C5_OnsetNeedsAll ==
    ev.mode = "idle" =>
        (ev.fired <=> (/\ Len(ev.win) = ring_buffer_size
                       /\ \A i \in 1..Len(ev.win) : ev.win[i]))

C5_Witness ==
    /\ ev.mode = "idle"
    /\ ev.fired
    /\ triggered
    /\ NumTrue(ev.win) = ring_buffer_size

\* C6 as stated: in Triggered the offset fires on a frame exactly when at
\* least 90% of the ring buffer's capacity (9 of 10 frames) is non-speech.
C6_OffsetAtNinetyPercent ==
    ev.mode = "trig" =>
        (ev.fired <=> 10 * NumFalse(ev.win) >= 9 * ring_buffer_size)

\* C6 as amended: in Triggered the offset fires on a frame exactly when the
\* ring buffer holds 10 frames received inside the utterance and all of
\* them are non-speech (more than 90%); with 9 of 10 it does not fire.
C6_OffsetNeedsAll ==
    ev.mode = "trig" =>
        (ev.fired <=> (/\ Len(ev.win) = ring_buffer_size
                       /\ \A i \in 1..Len(ev.win) : ~ev.win[i]))

C6_Witness ==
    /\ ev.mode = "trig"
    /\ ev.fired
    /\ ~triggered
    /\ NumFalse(ev.win) = ring_buffer_size

\* C7: every Segment pushed by offset detection is a run of consecutive
\* frames in arrival order: it starts with the ring-buffer lead-in (the
\* frames up to and including the one that crossed the onset threshold),
\* holds every frame read while Triggered, and ends with the frame that
\* caused the offset.
C7_SegmentsContiguous ==
    \A i \in OffsetSegments :
        LET seg == pushed[i] IN
        /\ Len(seg.frames) = seg.at - seg.onset + ring_buffer_size
        /\ \A k \in 1..Len(seg.frames) :
               seg.frames[k] = seg.onset - ring_buffer_size + k

C7_Witness ==
    \E i \in OffsetSegments :
        /\ pushed[i].frames[1] < pushed[i].onset
        /\ pushed[i].frames[Len(pushed[i].frames)] = pushed[i].at
        /\ pushed[i].at > pushed[i].onset

\* C8: Segments are popped and given to the backend in the order in which
\* they were pushed: the transcribed Segments, followed by the one the
\* worker holds, are a prefix of the push history.
C8_FifoOrder ==
    /\ Len(transcribed) <= Len(pushed)
    /\ \A i \in 1..Len(transcribed) : transcribed[i] = pushed[i]
    /\ audio_file # NoFile =>
           /\ Len(transcribed) < Len(pushed)
           /\ audio_file = pushed[Len(transcribed) + 1]

C8_Witness ==
    /\ Len(transcribed) >= 2
    /\ transcribed[1].n < transcribed[2].n

\* C9: after 20 non-speech, 40 speech and 20 non-speech frames exactly one
\* Segment has been pushed, and it has between 40 and 50 frames.
C9_EndToEnd ==
    (script = "e2e" /\ nframes = E2EFrames) =>
        /\ Len(pushed) = 1
        /\ Len(pushed[1].frames) >= 40
        /\ Len(pushed[1].frames) <= 50

C9_Witness ==
    /\ script = "e2e"
    /\ nframes = E2EFrames
    /\ Len(pushed) = 1
    /\ pushed[1].by = "offset"
    /\ stop_pc = "returned"

\* C10: on a stream whose frames are all classified non-speech no Segment
\* is ever pushed, by offset detection or by a flush; when stop() has
\* returned both threads have exited; and every stop() that was called
\* returns.
C10_SilenceCleanStop ==
    /\ [](script = "silence" =>
            /\ pushed = << >>
            /\ audio_queue = << >>
            /\ stop_pc = "returned" =>
                   /\ recording_thread = "done"
                   /\ transcription_thread = "done")
    /\ (script = "silence" /\ stop_pc = "check") ~> (stop_pc = "returned")

C10_Witness ==
    /\ script = "silence"
    /\ nframes >= ring_buffer_size
    /\ stop_pc = "returned"
    /\ recording_thread = "done"
    /\ transcription_thread = "done"


\* C11: in every state where stop() has returned, neither the capture
\* thread nor the worker thread is still running.
C11_StopJoinsBoth ==
    stop_pc = "returned" =>
        /\ recording_thread = "done"
        /\ transcription_thread = "done"

C11_Witness ==
    /\ stop_pc = "returned"
    /\ stops = 1
    /\ recording_thread = "done"
    /\ transcription_thread = "done"
    /\ Len(transcribed) >= 1

\* C12: with fair scheduling, once stop() is called both threads terminate
\* and stop() returns; and the worker terminates only by its own loop test,
\* made after a get timed out or an item was handled, finding the flag
\* cleared and the queue empty.
C12_StopTerminates ==
    /\ (stop_pc = "check") ~>
           (/\ stop_pc = "returned"
            /\ recording_thread = "done"
            /\ transcription_thread = "done")
    /\ [][(transcription_thread # "done" /\ transcription_thread' = "done") =>
              (/\ transcription_thread = "loop"
               /\ ~is_recording
               /\ audio_queue = << >>)]_vars

C12_Witness ==
    /\ script = "e2e"
    /\ stop_pc = "returned"
    /\ transcription_thread = "done"
    /\ recording_thread = "done"
    /\ nframes > 0

\* C13: the capture thread never waits for the worker: whenever it is about
\* to take a frame, the frame step is enabled for every answer of the
\* classifier, whatever the queue holds and wherever the worker is; so are
\* the loop test and the reset after an offset.
C13_CaptureNeverBlocks ==
    /\ recording_thread = "read" =>
           \A o \in VadOutcomes(script, nframes + 1) : ENABLED RecFrameWith(o)
    /\ (recording_thread = "loop" /\ nframes < FrameBudget(script)) =>
           ENABLED RecLoop
    /\ recording_thread = "reset" => ENABLED RecReset

C13_Witness ==
    /\ is_recording
    /\ recording_thread = "read"
    /\ transcription_thread = "transcribe"

\* C14: when a frame read has failed while the session is Recording and the
\* capture thread has left through its exception path, then, without any
\* stop() call, the session leaves Recording and the worker drains the queue
\* and exits (which is also what lets the loop in start() return).
C14_ReadErrorEndsSession ==
    (recording_thread = "done" /\ stops = 0 /\ stream = "closed") ~>
        (/\ ~is_recording
         /\ transcription_thread = "done"
         /\ audio_queue = << >>)

\* C15: once the capture thread has left record_audio_vad, by the loop test
\* or by an exception, the device stream it opened is closed and a non-empty
\* utterance buffer has been put on the queue as a Segment.
C15_ExitReleases ==
    recording_thread = "done" =>
        /\ stream # "open"
        /\ voiced_frames # << >> =>
               \E i \in 1..Len(pushed) :
                   /\ pushed[i].by = "exit"
                   /\ pushed[i].frames = voiced_frames

C15_Witness ==
    /\ recording_thread = "done"
    /\ stops = 0
    /\ stream = "closed"
    /\ voiced_frames # << >>
    /\ \E i \in 1..Len(pushed) : pushed[i].by = "exit"


FailedAt(i) == transcribed[i].n \in tempfiles

\* C16: a transcribe call that raises leaves the worker in its loop, and
\* when stop() has returned every Segment pushed after a Segment whose
\* transcription failed has been popped and given to the backend.
C16_FailureKeepsWorker ==
    /\ [][(/\ transcription_thread = "transcribe"
           /\ Len(transcribed') > Len(transcribed)
           /\ audio_file.n \in tempfiles')
              => transcription_thread' = "loop"]_vars
    /\ []((stops = 1 /\ stop_pc = "returned") =>
            \A i \in 1..Len(transcribed) :
                FailedAt(i) =>
                    \A j \in 1..Len(pushed) :
                        pushed[j].n > transcribed[i].n =>
                            \E k \in 1..Len(transcribed) :
                                transcribed[k] = pushed[j])

\* C17: the temporary file of every Segment the worker has handled, with or
\* without a transcription error, no longer exists when the worker is back
\* at its loop test or has exited.
C17_StorageReleased ==
    \A i \in 1..Len(transcribed) : transcribed[i].n \notin tempfiles

\* C18: (as spec.md states it) a failure to load the transcription model
\* during start() is fatal: start() fails, the session never records, no
\* thread is started and no other device or compute type is tried.
C18_LoadFailureFatal ==
    (start_pc = "raised" \/ loads > 1) =>
        /\ start_pc = "raised"
        /\ loads = 1
        /\ ~is_recording
        /\ recording_thread = "none"
        /\ transcription_thread = "none"

\* C18 (amended): a VADLiveTranscriber whose model load fails raises out of
\* start() after one construction, with no thread started and the session
\* not recording; a FasterWhisperLiveTranscriber constructs the model a
\* second time (CPU, int8) and raises out of start() in the same way only
\* when that construction fails too.
C18_LoadFailure ==
    /\ loads <= 2
    /\ loads = 2 => cls = "faster"
    /\ start_pc = "raised" =>
            /\ loads = (IF cls = "faster" THEN 2 ELSE 1)
            /\ model = "none"
            /\ ~is_recording
            /\ recording_thread = "none"
            /\ transcription_thread = "none"
    /\ start_pc = "running" => model = "loaded"

C18_Witness ==
    /\ start_pc = "raised"
    /\ cls = "vad"
    /\ loads = 1
    /\ recording_thread = "none"

\* C19: a frame on which the classifier raises takes exactly the step a
\* non-speech frame takes (the window gains a non-speech decision and the
\* segmenter moves as for non-speech), and the capture thread goes on to
\* its next loop test rather than to its exit.
C19_ClassifierFailureIsNonSpeech ==
    [][(SegmentFrame("error") /\ vad_failed') =>
            /\ SegmentFrame("nonspeech")
            /\ ev'.win[Len(ev'.win)] = FALSE
            /\ recording_thread' \in {"loop", "reset"}]_vars

C19_Witness ==
    /\ vad_failed
    /\ ev.mode = "trig"
    /\ ev.fired
    /\ recording_thread = "reset"

\* C20: every Segment on the queue was put there by the capture thread (by
\* offset detection or by its exit flush), never by the thread that calls
\* stop(); the worker is the only thread that takes Segments off the queue.
C20_SingleProducer ==
    /\ \A i \in 1..Len(pushed) : pushed[i].by \in {"offset", "exit"}
    /\ \A i \in 1..Len(transcribed) :
           \E j \in 1..Len(pushed) : pushed[j] = transcribed[i]

\* C21: the utterance buffer is non-empty only while the segmenter is
\* Triggered (the offset handler's own clearing step apart), and a step that
\* puts a Segment on the queue leaves the buffer empty, or, for an offset,
\* leaves the capture thread at the statement that empties it.
C21_BufferReleased ==
    /\ []((voiced_frames # << >> /\ recording_thread # "reset") => triggered)
    /\ [][Len(pushed') > Len(pushed) =>
              (voiced_frames' = << >> \/ recording_thread' = "reset")]_vars

\* C22: the ring buffer never holds more than ring_buffer_size (10) frames,
\* and what it holds are the most recently read frames, oldest first: a
\* frame pushed into a full buffer evicts the oldest entry.
C22_RingBufferBounded ==
    /\ Len(ring_buffer) <= ring_buffer_size
    /\ \A i \in 1..Len(ring_buffer) :
           ring_buffer[i].f = nframes - Len(ring_buffer) + i

C22_Witness ==
    /\ Len(ring_buffer) = ring_buffer_size
    /\ ring_buffer[1].f > 1
    /\ ring_buffer[ring_buffer_size].f = nframes

\* the Segments that have an entry in the transcript
Logged == {transcript_entries[i].n : i \in 1..Len(transcript_entries)}

\* C23: a transcription whose stripped text is empty appends no transcript
\* entry and is no error: the worker releases the Segment's file and goes
\* back to its loop; the session with a transcript logger appends an entry
\* for a Segment exactly when its stripped text is not empty, one entry per
\* such Segment.
C23_EmptyTextDropped ==
    /\ [][WorkerTranscribeWith("empty") =>
              /\ transcript_entries' = transcript_entries
              /\ audio_file.n \notin tempfiles'
              /\ transcription_thread' = "loop"]_vars
    /\ [][(cls = "faster" /\ WorkerTranscribeWith("text")) =>
              /\ Len(transcript_entries') = Len(transcript_entries) + 1
              /\ transcript_entries'[Len(transcript_entries')].n =
                    audio_file.n]_vars
    /\ [][Len(transcript_entries') > Len(transcript_entries) =>
              WorkerTranscribeWith("text")]_vars
    /\ [](/\ Logged \subseteq {transcribed[i].n : i \in 1..Len(transcribed)}
          /\ Cardinality(Logged) = Len(transcript_entries))

C23_Witness ==
    /\ cls = "faster"
    /\ transcription_thread = "loop"
    /\ \E i, j \in 1..Len(transcribed) :
           /\ transcribed[i].n \notin Logged
           /\ transcribed[i].n \notin tempfiles
           /\ transcribed[j].n \in Logged

\* C28: once the session has started, every step leaves the entries already
\* in the transcript where they are and unchanged and adds at most one
\* entry, at the end; only a worker step that got a non-blank text adds one,
\* and neither save_transcript nor a repeated stop() changes the entries.
C28_TranscriptAppendOnly ==
    [][start_pc = "running" =>
          /\ Len(transcript_entries') \in
                {Len(transcript_entries), Len(transcript_entries) + 1}
          /\ SubSeq(transcript_entries', 1, Len(transcript_entries)) =
                transcript_entries
          /\ Len(transcript_entries') > Len(transcript_entries) =>
                transcription_thread = "transcribe"
          /\ stop_pc = "save" => transcript_entries' = transcript_entries]_vars

C28_Witness ==
    /\ cls = "faster"
    /\ stops = 2
    /\ stop_pc = "returned"
    /\ saved.written
    /\ Len(transcript_entries) >= 2
    /\ saved.entries = transcript_entries

\* C24 as stated: in Idle the onset fires on a frame exactly when more than
\* 0.9 of the frames the ring buffer currently holds are speech, also when
\* it holds fewer than ring_buffer_size frames.
C24_OnsetByFraction ==
    ev.mode = "idle" =>
        (ev.fired <=> 10 * NumTrue(ev.win) > 9 * Len(ev.win))

\* C24 as amended: in Idle the onset fires on a frame exactly when the
\* number of speech frames in the ring buffer exceeds 0.9 times the
\* buffer's capacity; while the buffer holds fewer frames than its capacity
\* the onset does not fire, whatever fraction of them is speech.
C24_OnsetByCapacity ==
    ev.mode = "idle" =>
        /\ ev.fired <=> 10 * NumTrue(ev.win) > 9 * ring_buffer_size
        /\ Len(ev.win) < ring_buffer_size => ~ev.fired

C24_Witness ==
    /\ ev.mode = "idle"
    /\ Len(ev.win) \in 1..(ring_buffer_size - 1)
    /\ NumTrue(ev.win) = Len(ev.win)
    /\ ~ev.fired
    /\ ~triggered

\* C25: a run of speech frames that arrive while the segmenter is Idle
\* never gets longer than ring_buffer_size (10): the 10th of them leaves
\* the segmenter Triggered; a run of non-speech frames that arrive while it
\* is Triggered never gets longer than 10 either: the 10th of them fires
\* the offset.
C25_LatencyBounded ==
    /\ (streak.s /\ ~streak.trig) =>
           /\ streak.len <= ring_buffer_size
           /\ streak.len = ring_buffer_size =>
                  (triggered /\ ev.mode = "idle" /\ ev.fired)
    /\ (streak.len > 0 /\ ~streak.s /\ streak.trig) =>
           /\ streak.len <= ring_buffer_size
           /\ streak.len = ring_buffer_size =>
                  (~triggered /\ ev.mode = "trig" /\ ev.fired)

C25_Witness ==
    /\ streak = [s |-> FALSE, trig |-> TRUE, len |-> ring_buffer_size]
    /\ ~triggered
    /\ \E i \in OffsetSegments : pushed[i].at = nframes

\* C26: once the offset handler has run to its end the segmenter is Idle
\* and the utterance buffer and the ring buffer are empty, and they stay so
\* until the next frame; a frame step puts at most one Segment on the
\* queue, and none unless it is the step on which the offset fires.
C26_OffsetResets ==
    /\ []((ev.mode = "trig" /\ ev.fired /\ recording_thread # "reset") =>
            /\ ~triggered
            /\ voiced_frames = << >>
            /\ ring_buffer = << >>)
    /\ [][nframes' # nframes =>
              /\ Len(pushed') <= Len(pushed) + 1
              /\ Len(pushed') > Len(pushed) =>
                    (triggered /\ ~triggered' /\ ev'.fired)]_vars

C26_Witness ==
    /\ ev.mode = "trig"
    /\ ev.fired
    /\ recording_thread = "read"
    /\ ~triggered
    /\ voiced_frames = << >>
    /\ ring_buffer = << >>
    /\ \E i \in OffsetSegments : pushed[i].at = nframes

\* C27: whenever the session is Recording or one of its threads has been
\* started and has not ended, the model handle is set; in particular it is
\* set whenever the worker is about to call transcribe.
C27_ModelLoadedWhileRunning ==
    (\/ is_recording
     \/ recording_thread \notin {"none", "done"}
     \/ transcription_thread \notin {"none", "done"}) => model = "loaded"

C27_Witness ==
    /\ is_recording
    /\ transcription_thread = "transcribe"
    /\ audio_file # NoFile
    /\ model = "loaded"

\* C29: on every step on which the offset fires the utterance buffer holds
\* at least 2 * ring_buffer_size (20) frames, so the step puts a Segment:
\* the branch that drops an utterance of MinFrames frames or fewer is never
\* taken, and every Segment pushed by offset detection has 20 frames or
\* more.
C29_OffsetNeverDiscards ==
    /\ [][(triggered /\ ~triggered') =>
              /\ Len(voiced_frames') >= 2 * ring_buffer_size
              /\ LongEnough(voiced_frames')
              /\ Len(pushed') = Len(pushed) + 1
              /\ pushed'[Len(pushed')].frames = voiced_frames']_vars
    /\ [](\A i \in OffsetSegments :
             Len(pushed[i].frames) >= 2 * ring_buffer_size)

C29_Witness ==
    /\ recording_thread = "reset"
    /\ ev.mode = "trig"
    /\ ev.fired
    /\ Len(voiced_frames) = 2 * ring_buffer_size
    /\ pushed # << >>
    /\ pushed[Len(pushed)].frames = voiced_frames

\* the last k elements of a sequence
LastOf(seq, k) == SubSeq(seq, Len(seq) - k + 1, Len(seq))

\* C30: when the onset fires the ring buffer is full and each of its 10
\* frames is classified speech, and the lead-in put into the utterance
\* buffer is exactly those frames; when the offset fires the ring buffer
\* holds 10 frames all classified non-speech, and they are the last 10
\* frames of the Segment the offset pushes.
C30_LeadInAllSpeech ==
    /\ (ev.mode = "idle" /\ ev.fired) =>
           /\ Len(ev.win) = ring_buffer_size
           /\ \A i \in 1..Len(ev.win) : ev.win[i]
           /\ SubSeq(voiced_frames, 1, ring_buffer_size) = ev.frames
    /\ (ev.mode = "trig" /\ ev.fired) =>
           /\ Len(ev.win) = ring_buffer_size
           /\ \A i \in 1..Len(ev.win) : ~ev.win[i]
           /\ \E i \in OffsetSegments :
                  /\ pushed[i].at = nframes
                  /\ LastOf(pushed[i].frames, ring_buffer_size) = ev.frames

C30_Witness ==
    /\ ev.mode = "trig"
    /\ ev.fired
    /\ \E i \in OffsetSegments :
           /\ pushed[i].at = nframes
           /\ Len(pushed[i].frames) > 2 * ring_buffer_size
           /\ LastOf(pushed[i].frames, ring_buffer_size) = ev.frames

\* C31: when stop() has returned the segmenter is Idle and the utterance
\* buffer and the ring buffer are empty, so that a session started again on
\* the same object finds no frame of the session before.
C31_CleanAfterStop ==
    stop_pc = "returned" =>
        /\ ~triggered
        /\ voiced_frames = << >>
        /\ ring_buffer = << >>

\* the Segments the worker handled whose temporary file was deleted, which
\* are those whose transcribe call did not raise
Succeeded ==
    {transcribed[i].n : i \in 1..Len(transcribed)} \ tempfiles

\* C34: whenever the FasterWhisperLiveTranscriber worker is not inside an
\* iteration, total_segments equals the number of recorded transcription
\* times; the times recorded are those of the Segments whose transcribe
\* call did not raise, each once; and the transcript has no more entries
\* than total_segments.
C34_CountersAgree ==
    (cls = "faster" /\ transcription_thread # "transcribe") =>
        /\ total_segments = Len(transcription_times)
        /\ {transcription_times[i] : i \in 1..total_segments} = Succeeded
        /\ Cardinality(Succeeded) = total_segments
        /\ Len(transcript_entries) <= total_segments

C34_Witness ==
    /\ cls = "faster"
    /\ transcription_thread = "loop"
    /\ total_segments >= 1
    /\ Len(transcribed) > total_segments
    /\ Len(transcript_entries) < total_segments

FramesOf(segs) ==
    UNION {{segs[i].frames[j] : j \in 1..Len(segs[i].frames)} :
              i \in 1..Len(segs)}

\* C32: in the chunked LiveTranscriber the capture thread goes on to push a
\* chunk only when the flag is set at the test that follows the read of the
\* chunk's last frame; every Segment pushed is a whole chunk pushed by the
\* capture thread, none by stop(); and no frame of the chunk that was being
\* read when stop() was first called is in a Segment pushed or transcribed.
C32_PartialChunkDropped ==
    /\ [][(recording_thread # "c_put" /\ recording_thread' = "c_put") =>
            (recording_thread = "c_test" /\ is_recording
             /\ Len(chunk_frames) = ChunkFrames)]_vars
    /\ [][Len(pushed') > Len(pushed) => recording_thread = "c_put"]_vars
    /\ [](\A i \in 1..Len(pushed) :
             /\ pushed[i].by = "chunk"
             /\ Len(pushed[i].frames) = ChunkFrames)
    /\ [](/\ FramesOf(pushed) \cap FramesOf(<< [frames |-> stop_frames] >>)
                = {}
          /\ FramesOf(transcribed) \cap
                FramesOf(<< [frames |-> stop_frames] >>) = {})

C32_Witness ==
    /\ cls = "chunked"
    /\ stop_pc = "returned"
    /\ stop_frames # << >>
    /\ Len(pushed) >= 1
    /\ Len(transcribed) >= 1
    /\ recording_thread = "done"


====
